---- MODULE Spec2Model ----
(***************************************************************************)
(* Model of update_journey_data.py: one run of the TfL journey fetcher.    *)
(* A run issues up to three journey-plan requests, scans the journeys of   *)
(* every usable response, keeps the ones that go via Clapham Junction and  *)
(* have two rail legs, and (from main) writes the result to                *)
(* live_data.json.                                                         *)
(*                                                                         *)
(* Representation of the data:                                             *)
(*   - an upstream timestamp string is either Unparseable (a missing key,  *)
(*     or text datetime.fromisoformat rejects) or the number of seconds    *)
(*     since midnight of the first day the strings speak about;            *)
(*   - a parsed datetime is that number of seconds, or None;               *)
(*   - an "HH:MM" string is the number 100 * HH + MM, and "N/A" is NA;     *)
(*   - "<n> min" is the number n.                                          *)
(* Platform, operator, status and live_updated_at of the output are left   *)
(* out: they are copied or looked up independently of every other field.   *)
(***************************************************************************)
EXTENDS Integers, Sequences, FiniteSets

\* ---------------------------------------------------------------- bounds
\* Timestamps are multiples of TickSecs seconds, 0 .. MaxTick ticks.
MaxTick == 3
\* The upstream 'duration' field ranges over 0 .. MaxDuration (or is absent).
MaxDuration == 1
\* A journey of the wide input set has at most MaxLegs legs.
MaxLegs == 3
\* A response holds at most MaxJourneys journeys.
MaxJourneys == 2
\* fetch_and_process_tfl_data is called with num_journeys in 0 .. MaxNum.
MaxNum == 3

\* ------------------------------------------------------ program constants
\* The passes of "for offset_mins in [0, 15, 30]".
NumOffsets == 3
\* main() calls fetch_and_process_tfl_data(num_journeys=3).
MainNumJourneys == 3

\* ------------------------------------------------------- representation
TickSecs == 30
Unparseable == -1
None == -1
NA == -1
AbsentKey == -1

RawTimes == {Unparseable} \cup {k * TickSecs : k \in 0..MaxTick}
RawDurations == {AbsentKey} \cup (0..MaxDuration)

\* ---------------------------------------------------------- pure helpers
\* get_auth_params: both credentials or nothing.
GetAuthParams(app_id, app_key) ==
    IF app_id # "" /\ app_key # ""
    THEN {<<"app_id", app_id>>, <<"app_key", app_key>>}
    ELSE {}

\* parse_datetime: None on ValueError / AttributeError.
ParseDatetime(dt_string) ==
    IF dt_string = Unparseable THEN None ELSE dt_string

\* format_time: strftime("%H:%M") drops the date and the seconds.
FormatTime(dt) ==
    IF dt = None THEN NA
    ELSE ((dt \div 3600) % 24) * 100 + ((dt \div 60) % 60)

\* int(x): Python's int() of a float truncates toward zero.
IntTrunc(num, den) ==
    IF num >= 0 THEN num \div den ELSE -((-num) \div den)

\* check_journey_via_clapham: some leg's summary or stop points name
\* Clapham Junction.
CheckJourneyViaClapham(journey) ==
    \E i \in 1..Len(journey.legs) : journey.legs[i].clapham

\* The rail legs of process_journey: every leg whose mode is not walking.
RECURSIVE RailLegs(_)
RailLegs(legs) ==
    IF legs = <<>> THEN <<>>
    ELSE IF Head(legs).mode \notin {"walking", "walk"}
         THEN <<Head(legs)>> \o RailLegs(Tail(legs))
         ELSE RailLegs(Tail(legs))

\* The platform lookup of one rail leg raises IndexError when the
\* instruction text names no platform and routeOptions is an empty list
\* (leg.get('routeOptions', [{}])[0]).
PlatformLookupRaises(leg) ==
    ~leg.platformInSummary /\ leg.routeOptions = "empty"

\* What a call of process_journey does: "none" (returns None), "raise"
\* (an exception leaves it) or "journey" (returns a journey).
ProcessOutcome(journey) ==
    LET rail_legs == RailLegs(journey.legs) IN
    IF Len(rail_legs) < 2 THEN "none"
    ELSE IF PlatformLookupRaises(rail_legs[1]) \/ PlatformLookupRaises(rail_legs[2])
         THEN "raise"
         ELSE "journey"

\* transfer_mins of process_journey.
TransferMins(leg1_arrive, leg2_depart) ==
    IF leg1_arrive # None /\ leg2_depart # None
    THEN IntTrunc(leg2_depart - leg1_arrive, 60)
    ELSE 0

\* duration_mins = journey.get('duration', 0).
DurationMins(journey) ==
    IF journey.duration = AbsentKey THEN 0 ELSE journey.duration

\* The dictionary process_journey returns (when ProcessOutcome is "journey").
\* legs[1] and legs[3] are the two rail legs, legs[2] the transfer.
ProcessJourney(journey, journey_id) ==
    LET start_time   == ParseDatetime(journey.startDateTime)
        arrival_time == ParseDatetime(journey.arrivalDateTime)
        rail_legs    == RailLegs(journey.legs)
        leg1         == rail_legs[1]
        leg2         == rail_legs[2]
        leg1_depart  == ParseDatetime(leg1.departureTime)
        leg1_arrive  == ParseDatetime(leg1.arrivalTime)
        leg2_depart  == ParseDatetime(leg2.departureTime)
        leg2_arrive  == ParseDatetime(leg2.arrivalTime)
    IN  [ id            |-> journey_id,
          departureTime |-> FormatTime(start_time),
          arrivalTime   |-> FormatTime(arrival_time),
          totalDuration |-> DurationMins(journey),
          legs |-> << [ departure |-> FormatTime(leg1_depart),
                        arrival   |-> FormatTime(leg1_arrive) ],
                      [ transferTime |-> TransferMins(leg1_arrive, leg2_depart) ],
                      [ departure |-> FormatTime(leg2_depart),
                        arrival   |-> FormatTime(leg2_arrive) ] >> ]

\* depart = format_time(parse_datetime(journey.get('startDateTime')))
DepartKey(journey) == FormatTime(ParseDatetime(journey.startDateTime))

\* The duplicate test gone wrong: it looks at the wrong field of the
\* journeys already accepted.
AlreadyHaveWrongField(processed, depart) ==
    \E i \in 1..Len(processed) : processed[i].arrivalTime = depart

\* any(j['departureTime'] == depart for j in all_processed)
AlreadyHave(processed, depart) ==
    \E i \in 1..Len(processed) : processed[i].departureTime = depart

\* "Re-number journeys": id becomes the 1-based position.
Renumber(processed) ==
    [i \in 1..Len(processed) |-> [processed[i] EXCEPT !.id = i]]

\* ------------------------------------------------------------ input sets
SeqsUpTo(S, n) == UNION {[1..k -> S] : k \in 0..n}

\* A walking leg: process_journey reads nothing of it but its mode.
WalkLeg(m) ==
    [ mode |-> m, departureTime |-> Unparseable, arrivalTime |-> Unparseable,
      platformInSummary |-> FALSE, routeOptions |-> "absent", clapham |-> FALSE ]

\* A rail leg departing at d and arriving at a; opt is
\* <<platformInSummary, routeOptions, clapham>>.
RailLeg(d, a, opt) ==
    [ mode |-> "national-rail", departureTime |-> d, arrivalTime |-> a,
      platformInSummary |-> opt[1], routeOptions |-> opt[2], clapham |-> opt[3] ]

LastTick == MaxTick * TickSecs
LegTimes == {Unparseable, 0, LastTick}
Plain    == <<TRUE, "named", TRUE>>
Raising  == <<FALSE, "empty", TRUE>>
Elsewhere == <<TRUE, "named", FALSE>>

\* The wide input set: what one call of the loop body may be handed.
WideLegs ==
    {WalkLeg(m) : m \in {"walking", "walk"}}
    \cup {RailLeg(d, a, opt) : d \in LegTimes, a \in LegTimes,
                              opt \in {Plain, Raising}}
Journeys ==
    [ startDateTime : RawTimes, arrivalDateTime : LegTimes,
      duration : RawDurations, legs : SeqsUpTo(WideLegs, MaxLegs) ]

\* The narrow input set of a whole run: every start time, and per start
\* time a journey of each kind the loop body tells apart.
RunLegLists ==
    { <<RailLeg(0, TickSecs, Plain), RailLeg(LastTick, LastTick, Plain)>>,
      <<WalkLeg("walking"), RailLeg(TickSecs, TickSecs, Plain),
        RailLeg(Unparseable, LastTick, Plain), WalkLeg("walk")>>,
      <<RailLeg(0, TickSecs, Plain)>>,
      <<RailLeg(0, TickSecs, Elsewhere), RailLeg(LastTick, LastTick, Elsewhere)>>,
      <<RailLeg(0, TickSecs, Raising), RailLeg(LastTick, LastTick, Plain)>> }
RunJourneys ==
    [ startDateTime : RawTimes, arrivalDateTime : {LastTick},
      duration : {MaxDuration}, legs : RunLegLists ]

\* ----------------------------------------------------------------- state
VARIABLES
    TFL_APP_ID,     \* the environment's credentials ("" when unset)
    TFL_APP_KEY,
    caller,         \* "none", "main" or "direct": who called the fetch
    num_journeys,   \* the argument of fetch_and_process_tfl_data
    pc,             \* "start", "pass", "waiting", "scan", "done"
    pass,           \* the pass of the offset loop, 1 .. NumOffsets
    remaining,      \* journeys of the current response not yet scanned
    all_processed,  \* the accumulated result list
    file_written,   \* live_data.json was written by this run
    file_content,   \* what was written
    requests,       \* history: calls of get_journey_plan so far
    request_params, \* history: the auth parameters of the last request
    fetch_failed,   \* history: some pass got no usable response
    last_step       \* history: what the last step did

vars == << TFL_APP_ID, TFL_APP_KEY, caller, num_journeys, pc, pass, remaining,
           all_processed, file_written, file_content, requests,
           request_params, fetch_failed, last_step >>

env == << TFL_APP_ID, TFL_APP_KEY >>

\* What process_journey emits.
EmittedJourney(j) ==
    /\ DOMAIN j = {"id", "departureTime", "arrivalTime", "totalDuration", "legs"}
    /\ j.id \in Nat \ {0}
    /\ {j.departureTime, j.arrivalTime} \subseteq ({NA} \cup (0..2359))
    /\ j.totalDuration \in Int
    /\ Len(j.legs) = 3
    /\ j.legs[2].transferTime \in Int

\* The state of a run.
TypeOK ==
    /\ TFL_APP_ID \in {"", "id"}
    /\ TFL_APP_KEY \in {"", "key"}
    /\ caller \in {"none", "main", "direct"}
    /\ num_journeys \in Nat
    /\ pc \in {"start", "pass", "waiting", "scan", "done"}
    /\ pass \in 1..NumOffsets
    /\ remaining \in 0..MaxJourneys
    /\ \A i \in 1..Len(all_processed) : EmittedJourney(all_processed[i])
    /\ file_written \in BOOLEAN
    /\ file_written => (caller = "main" /\ pc = "done" /\ file_content = all_processed)
    /\ requests \in 0..NumOffsets
    /\ request_params \in {{}, GetAuthParams("id", "key")}
    /\ fetch_failed \in BOOLEAN

Init ==
    /\ TFL_APP_ID \in {"", "id"}
    /\ TFL_APP_KEY \in {"", "key"}
    /\ caller = "none"
    /\ num_journeys = MainNumJourneys
    /\ pc = "start"
    /\ pass = 1
    /\ remaining = 0
    /\ all_processed = <<>>
    /\ file_written = FALSE
    /\ file_content = <<>>
    /\ requests = 0
    /\ request_params = {}
    /\ fetch_failed = FALSE
    /\ last_step = "init"

\* The end of fetch_and_process_tfl_data and, when main called it, the rest
\* of main: renumber, return, and write the file if the list is not empty.
Finish(processed) ==
    LET data == Renumber(processed) IN
    /\ all_processed' = data
    /\ pc' = "done"
    /\ remaining' = 0
    /\ pass' = pass
    /\ IF caller = "main" /\ data # <<>>
       THEN file_written' = TRUE /\ file_content' = data
       ELSE UNCHANGED <<file_written, file_content>>

\* "continue" of the offset loop: the next pass, or the end of the loop.
ContinuePass(processed) ==
    IF pass < NumOffsets
    THEN /\ pass' = pass + 1
         /\ pc' = "pass"
         /\ remaining' = 0
         /\ all_processed' = processed
         /\ UNCHANGED <<file_written, file_content>>
    ELSE Finish(processed)

\* The end of a pass that got a response: "if len(all_processed) >=
\* num_journeys: break", else the next pass.
EndPass(processed) ==
    IF Len(processed) >= num_journeys
    THEN Finish(processed)
    ELSE ContinuePass(processed)

\* One iteration of "for journey in journeys": what it leaves in the list,
\* and how it ends.
BodyStep(processed, journey) ==
    IF ~CheckJourneyViaClapham(journey) THEN "not_via"
    ELSE IF AlreadyHave(processed, DepartKey(journey)) THEN "duplicate"
    ELSE IF ProcessOutcome(journey) = "raise" THEN "error"
    ELSE IF ProcessOutcome(journey) = "none" THEN "rejected"
    ELSE "accepted"

BodyResult(processed, journey) ==
    IF BodyStep(processed, journey) = "accepted"
    THEN Append(processed, ProcessJourney(journey, Len(processed) + 1))
    ELSE processed

\* The loop body on one journey drawn from `inputs`.
Scan(inputs) ==
    /\ pc = "scan"
    /\ remaining > 0
    /\ \E journey \in inputs :
        LET step == BodyStep(all_processed, journey)
            processed == BodyResult(all_processed, journey)
        IN  /\ last_step' = step
            /\ IF step = "accepted" /\ Len(processed) >= num_journeys
               THEN EndPass(processed)
               ELSE /\ all_processed' = processed
                    /\ remaining' = remaining - 1
                    /\ UNCHANGED <<pc, pass, file_written, file_content>>
    /\ UNCHANGED <<env, caller, num_journeys, requests, request_params, fetch_failed>>

\* ---------------------------------------------------------------- actions
\* main(): data = fetch_and_process_tfl_data(num_journeys=3)
Main ==
    /\ pc = "start"
    /\ caller' = "main"
    /\ num_journeys' = MainNumJourneys
    /\ all_processed' = <<>>
    /\ pass' = 1
    /\ pc' = "pass"
    /\ last_step' = "call"
    /\ UNCHANGED <<env, remaining, file_written, file_content, requests,
                   request_params, fetch_failed>>

\* fetch_and_process_tfl_data(n) called for itself.
FetchDirect ==
    /\ pc = "start"
    /\ \E n \in 0..MaxNum : num_journeys' = n
    /\ caller' = "direct"
    /\ all_processed' = <<>>
    /\ pass' = 1
    /\ pc' = "pass"
    /\ last_step' = "call"
    /\ UNCHANGED <<env, remaining, file_written, file_content, requests,
                   request_params, fetch_failed>>

\* get_journey_plan: requests.get is issued.
SendRequest ==
    /\ pc = "pass"
    /\ requests' = requests + 1
    /\ request_params' = GetAuthParams(TFL_APP_ID, TFL_APP_KEY)
    /\ pc' = "waiting"
    /\ last_step' = "request"
    /\ UNCHANGED <<env, caller, num_journeys, pass, remaining, all_processed,
                   file_written, file_content, fetch_failed>>

\* The request raises RequestException (network error, timeout, HTTP error
\* status): get_journey_plan returns None and the pass is skipped.
RequestFails ==
    /\ pc = "waiting"
    /\ fetch_failed' = TRUE
    /\ last_step' = "request_failed"
    /\ ContinuePass(all_processed)
    /\ UNCHANGED <<env, caller, num_journeys, requests, request_params>>

\* The response is empty or has no 'journeys' key: the pass is skipped.
ResponseWithoutJourneys ==
    /\ pc = "waiting"
    /\ fetch_failed' = TRUE
    /\ last_step' = "no_journeys_key"
    /\ ContinuePass(all_processed)
    /\ UNCHANGED <<env, caller, num_journeys, requests, request_params>>

\* The response holds a list of journeys.
ResponseArrives ==
    /\ pc = "waiting"
    /\ \E n \in 0..MaxJourneys : remaining' = n
    /\ pc' = "scan"
    /\ last_step' = "response"
    /\ UNCHANGED <<env, caller, num_journeys, pass, all_processed, file_written,
                   file_content, requests, request_params, fetch_failed>>

\* The loop body on the next journey of the response.
ScanJourney == Scan(RunJourneys)

\* The journeys of the response are exhausted.
EndOfJourneys ==
    /\ pc = "scan"
    /\ remaining = 0
    /\ last_step' = "end_of_journeys"
    /\ EndPass(all_processed)
    /\ UNCHANGED <<env, caller, num_journeys, requests, request_params, fetch_failed>>

Next ==
    \/ Main
    \/ FetchDirect
    \/ SendRequest
    \/ RequestFails
    \/ ResponseWithoutJourneys
    \/ ResponseArrives
    \/ ScanJourney
    \/ EndOfJourneys

Spec == Init /\ [][Next]_vars

\* The loop body alone, on every journey of the wide input set: a direct
\* call with the default num_journeys, in the first pass, whose response
\* holds one journey.
InitBody ==
    /\ TFL_APP_ID = "id"
    /\ TFL_APP_KEY = "key"
    /\ caller = "direct"
    /\ num_journeys = MainNumJourneys
    /\ pc = "scan"
    /\ pass = 1
    /\ remaining = 1
    /\ all_processed = <<>>
    /\ file_written = FALSE
    /\ file_content = <<>>
    /\ requests = 1
    /\ request_params = GetAuthParams("id", "key")
    /\ fetch_failed = FALSE
    /\ last_step = "response"

ScanAnyJourney == Scan(Journeys)

NextBody == ScanAnyJourney

SpecBody == InitBody /\ [][NextBody]_vars

\* ---------------------------------------------------------------- claims
Emitted == {all_processed[i] : i \in 1..Len(all_processed)}

\* The minute of the day of an "HH:MM" string.
MinuteOfDay(hhmm) == (hhmm \div 100) * 60 + (hhmm % 100)

\* C1: when a run of main ends, live_data.json has been written and holds
\* the journeys of the run, the empty array when there are none.
C1_MainAlwaysWritesResult ==
    (pc = "done" /\ caller = "main")
        => (file_written /\ file_content = all_processed)

\* C2: the totalDuration of every emitted journey is its arrivalTime minus
\* its departureTime, in whole minutes.
C2_TotalDurationIsArrivalMinusDeparture ==
    \A j \in Emitted :
        (j.departureTime # NA /\ j.arrivalTime # NA)
            => j.totalDuration
                 = MinuteOfDay(j.arrivalTime) - MinuteOfDay(j.departureTime)

\* C3: the departureTime of every emitted journey is the departure of its
\* first leg, and its arrivalTime is the arrival of its last leg.
C3_JourneyTimesAreLegTimes ==
    \A j \in Emitted :
        /\ j.departureTime = j.legs[1].departure
        /\ j.arrivalTime = j.legs[3].arrival

\* C4: no journey with an unparseable timestamp is in the result: no
\* emitted journey carries the placeholder time "N/A".
C4_NoPlaceholderTimeEmitted ==
    \A j \in Emitted :
        /\ j.departureTime # NA
        /\ j.arrivalTime # NA
        /\ j.legs[1].departure # NA
        /\ j.legs[1].arrival # NA
        /\ j.legs[3].departure # NA
        /\ j.legs[3].arrival # NA

\* C5: a run in which some journey-plan fetch failed returns the empty list.
C5_FailedFetchGivesEmptyResult ==
    (pc = "done" /\ fetch_failed) => all_processed = <<>>

\* C6: with a credential missing, no request is issued or in flight and no
\* file is written.
C6_NoCredentialsNoRequestNoFile ==
    (TFL_APP_ID = "" \/ TFL_APP_KEY = "")
        => (requests = 0 /\ pc # "waiting" /\ ~file_written)

\* C7: a run issues at most one journey-plan request.
C7_SingleRequestPerRun ==
    requests <= 1

\* C8: transferTime and totalDuration of every emitted journey are
\* integers >= 0.
C8_DurationsNonNegative ==
    \A j \in Emitted :
        /\ j.legs[2].transferTime \in Nat
        /\ j.totalDuration \in Nat

\* C9: for every num_journeys >= 0 the result never holds more than
\* num_journeys journeys.
C9_AtMostNumJourneys ==
    Len(all_processed) <= num_journeys

\* C10: no two journeys of the accumulated list have the same
\* departureTime, "N/A" included.
C10_DistinctDepartureTimes ==
    \A i, k \in 1..Len(all_processed) :
        i # k => all_processed[i].departureTime # all_processed[k].departureTime

\* C10, its case: in a later pass a candidate was skipped as a duplicate,
\* the list holding two journeys, one of them with departureTime "N/A".
C10_DuplicateSkippedInLaterPass ==
    /\ last_step = "duplicate"
    /\ pass > 1
    /\ Len(all_processed) >= 2
    /\ \E j \in Emitted : j.departureTime = NA

====
